---- MODULE Spec2Model ----
(***************************************************************************)
(* agekms: an age Identity backed by an RSA ASYMMETRIC_DECRYPT key held in *)
(* Google Cloud KMS (package gcpkms) and the matching age Recipient        *)
(* (package rsaoaep).                                                      *)
(*                                                                         *)
(* Bytes are integers 0..255, byte strings are sequences of bytes, and a   *)
(* uint32 is the pair <<hi, lo>> of its 16-bit halves.                     *)
(***************************************************************************)
EXTENDS Integers, Sequences, FiniteSets, TLC

----------------------------------------------------------------------------
(* Fixed-width bit arithmetic used by hash/crc32 and crypto/sha256.        *)

Pow2(n) == 2 ^ n

\* XOR and AND of two 4-bit values, tabulated once.
Xor4 ==
   [a \in 0..15 |-> [b \in 0..15 |->
      ((a + b) % 2)
      + 2 * (((a \div 2) + (b \div 2)) % 2)
      + 4 * (((a \div 4) + (b \div 4)) % 2)
      + 8 * (((a \div 8) + (b \div 8)) % 2)]]

And4 ==
   [a \in 0..15 |-> [b \in 0..15 |->
      ((a % 2) * (b % 2))
      + 2 * (((a \div 2) % 2) * ((b \div 2) % 2))
      + 4 * (((a \div 4) % 2) * ((b \div 4) % 2))
      + 8 * (((a \div 8) % 2) * ((b \div 8) % 2))]]

\* a bitwise operation on n 4-bit digits, by its table
RECURSIVE nibbleOp(_, _, _, _)
nibbleOp(tab, a, b, n) ==
   IF n = 0 THEN 0
   ELSE tab[a % 16][b % 16] + 16 * nibbleOp(tab, a \div 16, b \div 16, n - 1)

Xor16(a, b) == nibbleOp(Xor4, a, b, 4)

bitOp32(tab, x, y) == <<nibbleOp(tab, x[1], y[1], 4), nibbleOp(tab, x[2], y[2], 4)>>

Xor32(x, y) == bitOp32(Xor4, x, y)

And32(x, y) == bitOp32(And4, x, y)

Not32(x) == <<65535 - x[1], 65535 - x[2]>>

\* x + y mod 2^32
Add32(x, y) ==
   LET lo == x[2] + y[2]
       hi == x[1] + y[1] + (lo \div 65536)
   IN  <<hi % 65536, lo % 65536>>

\* x >> n, 0 <= n < 32
Shr32(x, n) ==
   IF n >= 16
   THEN <<0, x[1] \div Pow2(n - 16)>>
   ELSE <<x[1] \div Pow2(n),
          (x[2] \div Pow2(n)) + (x[1] % Pow2(n)) * Pow2(16 - n)>>

\* bits.RotateLeft32(x, -n), 0 <= n < 32
Rotr32(x, n) ==
   LET y == IF n >= 16 THEN <<x[2], x[1]>> ELSE x
       m == n % 16
   IN  <<(y[1] \div Pow2(m)) + (y[2] % Pow2(m)) * Pow2(16 - m),
         (y[2] \div Pow2(m)) + (y[1] % Pow2(m)) * Pow2(16 - m)>>

----------------------------------------------------------------------------
(* hash/crc32: crc32.MakeTable(crc32.Castagnoli) and crc32.Checksum.       *)

\* crc32.Castagnoli = 0x82f63b78
Castagnoli == <<33526, 15224>>

RECURSIVE crcTableEntry(_, _)
crcTableEntry(crc, j) ==
   IF j = 0 THEN crc
   ELSE crcTableEntry(IF crc[2] % 2 = 1
                      THEN Xor32(Shr32(crc, 1), Castagnoli)
                      ELSE Shr32(crc, 1),
                      j - 1)

\* simpleMakeTable: 256 entries, 8 shift steps each
MakeTable == [i \in 0..255 |-> crcTableEntry(<<0, i>>, 8)]

RECURSIVE crcUpdate(_, _, _, _)
crcUpdate(crc, tab, p, i) ==
   IF i > Len(p) \/ Len(crc) # 2 THEN crc
   ELSE crcUpdate(Xor32(tab[Xor16(crc[2] % 256, p[i])], Shr32(crc, 8)),
                  tab, p, i + 1)

\* crc32.Checksum(data, tab) = ^update(^0, tab, data)
Checksum(data, tab) == Not32(crcUpdate(Not32(<<0, 0>>), tab, data, 1))

\* the checksums of the byte strings in known, computed once
ChecksumsOf(known) == [b \in known |-> Checksum(b, MakeTable)]

----------------------------------------------------------------------------
(* crypto/sha256: Sum256.                                                  *)

sha256K ==
   <<
      <<17034, 12184>>, <<28983, 17553>>, <<46528, 64463>>, <<59829, 56229>>,
      <<14678, 49755>>, <<23025, 4593>>, <<37439, 33444>>, <<43804, 24277>>,
      <<55303, 43672>>, <<4739, 23297>>, <<9265, 34238>>, <<21772, 32195>>,
      <<29374, 23924>>, <<32990, 45566>>, <<39900, 1703>>, <<49563, 61812>>,
      <<58523, 27073>>, <<61374, 18310>>, <<4033, 40390>>, <<9228, 41420>>,
      <<11753, 11375>>, <<19060, 33962>>, <<23728, 43484>>, <<30457, 35034>>,
      <<38974, 20818>>, <<43057, 50797>>, <<45059, 10184>>, <<48985, 32711>>,
      <<50912, 3059>>, <<54695, 37191>>, <<1738, 25425>>, <<5161, 10599>>,
      <<10167, 2693>>, <<11803, 8504>>, <<19756, 28156>>, <<21304, 3347>>,
      <<25866, 29524>>, <<30314, 2747>>, <<33218, 51502>>, <<37490, 11397>>,
      <<41663, 59553>>, <<43034, 26187>>, <<49739, 35696>>, <<51052, 20899>>,
      <<53650, 59417>>, <<54937, 1572>>, <<62478, 13701>>, <<4202, 41072>>,
      <<6564, 49430>>, <<7735, 27656>>, <<10056, 30540>>, <<13488, 48309>>,
      <<14620, 3251>>, <<20184, 43594>>, <<23452, 51791>>, <<26670, 28659>>,
      <<29839, 33518>>, <<30885, 25455>>, <<33992, 30740>>, <<36039, 520>>,
      <<37054, 65530>>, <<42064, 27883>>, <<48889, 41975>>, <<50801, 30962>>
   >>

sha256Init ==
   <<
      <<27145, 58983>>, <<47975, 44677>>, <<15470, 62322>>, <<42319, 62778>>,
      <<20750, 21119>>, <<39685, 26764>>, <<8067, 55723>>, <<23520, 52505>>
   >>

BigSigma0(x) == Xor32(Xor32(Rotr32(x, 2), Rotr32(x, 13)), Rotr32(x, 22))

BigSigma1(x) == Xor32(Xor32(Rotr32(x, 6), Rotr32(x, 11)), Rotr32(x, 25))

SmallSigma0(x) == Xor32(Xor32(Rotr32(x, 7), Rotr32(x, 18)), Shr32(x, 3))

SmallSigma1(x) == Xor32(Xor32(Rotr32(x, 17), Rotr32(x, 19)), Shr32(x, 10))

Ch(x, y, z) == Xor32(And32(x, y), And32(Not32(x), z))

Maj(x, y, z) == Xor32(Xor32(And32(x, y), And32(x, z)), And32(y, z))

\* the message with the 0x80 byte, zero fill and 64-bit big-endian bit length
RECURSIVE Zeros(_)
Zeros(n) == IF n <= 0 THEN <<>> ELSE <<0>> \o Zeros(n - 1)

sha256Pad(msg) ==
   LET len  == Len(msg)
       fill == (119 - (len % 64)) % 64
       bits == len * 8
   IN  msg \o <<128>> \o Zeros(fill) \o Zeros(4)
           \o <<(bits \div 16777216) % 256, (bits \div 65536) % 256,
                (bits \div 256) % 256, bits % 256>>

RECURSIVE sha256Schedule(_)
sha256Schedule(w) ==
   IF Len(w) = 64 THEN w
   ELSE LET t == Len(w) + 1
        IN  sha256Schedule(Append(w,
               Add32(Add32(SmallSigma1(w[t - 2]), w[t - 7]),
                     Add32(SmallSigma0(w[t - 15]), w[t - 16]))))

sha256T1(s, kt, wt) ==
   Add32(Add32(Add32(s[8], BigSigma1(s[5])), Add32(Ch(s[5], s[6], s[7]), kt)), wt)

sha256T2(s) == Add32(BigSigma0(s[1]), Maj(s[1], s[2], s[3]))

sha256Step(s, t1, t2) ==
   <<Add32(t1, t2), s[1], s[2], s[3], Add32(s[4], t1), s[5], s[6], s[7]>>

RECURSIVE sha256Rounds(_, _, _)
sha256Rounds(s, w, t) ==
   IF t > 64 \/ Len(s) # 8 THEN s
   ELSE sha256Rounds(sha256Step(s, sha256T1(s, sha256K[t], w[t]), sha256T2(s)), w, t + 1)

\* the 16 big-endian words of the block of p that starts after off bytes
sha256Words(p, off) ==
   [i \in 1..16 |-> <<p[off + 4 * i - 3] * 256 + p[off + 4 * i - 2],
                      p[off + 4 * i - 1] * 256 + p[off + 4 * i]>>]

sha256AddState(h, s) == [i \in 1..8 |-> Add32(h[i], s[i])]

RECURSIVE sha256Blocks(_, _, _)
sha256Blocks(h, p, off) ==
   IF off >= Len(p) \/ Len(h) # 8 THEN h
   ELSE sha256Blocks(
           sha256AddState(h, sha256Rounds(h, sha256Schedule(sha256Words(p, off)), 1)),
           p, off + 64)

\* byte k (0 the most significant) of a word
byteOfWord(wd, k) ==
   IF k = 0 THEN wd[1] \div 256
   ELSE IF k = 1 THEN wd[1] % 256
   ELSE IF k = 2 THEN wd[2] \div 256
   ELSE wd[2] % 256

sha256Digest(h) == [i \in 1..32 |-> byteOfWord(h[(i + 3) \div 4], (i - 1) % 4)]

\* sha256.Sum256: the 32-byte digest
Sum256(data) == sha256Digest(sha256Blocks(sha256Init, sha256Pad(data), 0))

----------------------------------------------------------------------------
(* encoding/asn1: Marshal of an rsa.PublicKey{N *big.Int, E int}, which is *)
(* the DER SEQUENCE { INTEGER N, INTEGER E }.  A key is the record         *)
(* [hasN, N, E]: hasN is FALSE for a nil N, N is the big-endian magnitude  *)
(* of the modulus without leading zero bytes, E a non-negative int.        *)

\* big-endian bytes of a non-negative integer, at least one byte
RECURSIVE BytesOfNat(_)
BytesOfNat(n) ==
   IF n < 256 THEN <<n>> ELSE BytesOfNat(n \div 256) \o <<n % 256>>

\* DER length octets: short form below 128, long form otherwise
asn1Length(n) ==
   IF n < 128 THEN <<n>>
   ELSE LET b == BytesOfNat(n) IN <<128 + Len(b)>> \o b

\* two's complement content octets of a non-negative value given by its
\* magnitude: a zero byte is put in front when the top bit is set
asn1IntegerBody(mag) ==
   IF mag = <<>> THEN <<0>>
   ELSE IF mag[1] >= 128 THEN <<0>> \o mag
   ELSE mag

asn1Integer(mag) ==
   LET body == asn1IntegerBody(mag)
   IN  <<2>> \o asn1Length(Len(body)) \o body

\* a Marshal that leaves the exponent out
asn1MarshalModulusOnly(key) ==
   IF ~key.hasN THEN [ok |-> FALSE, bytes |-> <<>>]
   ELSE LET body == asn1Integer(key.N)
        IN  [ok |-> TRUE, bytes |-> <<48>> \o asn1Length(Len(body)) \o body]

\* asn1.Marshal(key): [ok, bytes]; a nil N is the error "empty integer"
asn1Marshal(key) ==
   IF ~key.hasN THEN [ok |-> FALSE, bytes |-> <<>>]
   ELSE LET body == asn1Integer(key.N)
                       \o asn1Integer(IF key.E = 0 THEN <<>> ELSE BytesOfNat(key.E))
        IN  [ok |-> TRUE, bytes |-> <<48>> \o asn1Length(Len(body)) \o body]

----------------------------------------------------------------------------
(* encoding/base64: StdEncoding.EncodeToString.                            *)

encodeStd ==
   <<
      "A", "B", "C", "D", "E", "F", "G", "H", "I", "J", "K", "L", "M", "N", "O", "P",
      "Q", "R", "S", "T", "U", "V", "W", "X", "Y", "Z", "a", "b", "c", "d", "e", "f",
      "g", "h", "i", "j", "k", "l", "m", "n", "o", "p", "q", "r", "s", "t", "u", "v",
      "w", "x", "y", "z", "0", "1", "2", "3", "4", "5", "6", "7", "8", "9", "+", "/"
   >>

RECURSIVE base64Encode(_, _)
base64Encode(src, i) ==
   LET rem == Len(src) - i + 1
   IN  IF rem <= 0 THEN ""
       ELSE IF rem = 1
       THEN encodeStd[(src[i] \div 4) + 1]
            \o encodeStd[(src[i] % 4) * 16 + 1] \o "=="
       ELSE IF rem = 2
       THEN encodeStd[(src[i] \div 4) + 1]
            \o encodeStd[(src[i] % 4) * 16 + (src[i + 1] \div 16) + 1]
            \o encodeStd[(src[i + 1] % 16) * 4 + 1] \o "="
       ELSE encodeStd[(src[i] \div 4) + 1]
            \o encodeStd[(src[i] % 4) * 16 + (src[i + 1] \div 16) + 1]
            \o encodeStd[(src[i + 1] % 16) * 4 + (src[i + 2] \div 64) + 1]
            \o encodeStd[(src[i + 2] % 64) + 1]
            \o base64Encode(src, i + 3)

EncodeToString(src) == base64Encode(src, 1)

----------------------------------------------------------------------------
(* Bounds of the model.                                                    *)

\* longest list of key names handed to NewClient
MaxNames == 2

\* longest stanza list handed to Unwrap
MaxStanzas == 3

----------------------------------------------------------------------------
(* The keys of the model.  Moduli are given by their bytes; what matters   *)
(* to this code is their encoding and their size in bytes.                 *)

KeyA == [hasN |-> TRUE, N |-> [i \in 1..96 |-> (i * 37 + 163) % 256], E |-> 65537]

KeyB == [hasN |-> TRUE, N |-> [i \in 1..96 |-> (i * 101 + 96) % 256], E |-> 65537]

\* the modulus of KeyA with another exponent
KeyC == [hasN |-> TRUE, N |-> KeyA.N, E |-> 3]

\* a modulus too short for OAEP with SHA-256
KeySmall == [hasN |-> TRUE, N |-> [i \in 1..64 |-> (i * 59 + 134) % 256], E |-> 65537]

\* an rsa.PublicKey whose N is nil
KeyNil == [hasN |-> FALSE, N |-> <<>>, E |-> 0]

NoKey == [hasN |-> FALSE, N |-> <<>>, E |-> -1]

RecipientKeys == {KeyA, KeyB, KeyC, KeySmall, KeyNil}

----------------------------------------------------------------------------
(* keyID (gcpkms and rsaoaep hold the same text): [ok, id].                *)

keyIDOf(key) ==
   IF ~asn1Marshal(key).ok THEN [ok |-> FALSE, id |-> ""]
   ELSE [ok |-> TRUE, id |-> EncodeToString(Sum256(asn1Marshal(key).bytes))]

\* the identifiers of the keys of the model, kept so that they are computed once
keyIDs == [k \in RecipientKeys |-> keyIDOf(k)]

keyIDVia(ids, key) == IF key \in DOMAIN ids THEN ids[key] ELSE keyIDOf(key)

keyID(key) == keyIDVia(keyIDs, key)

\* keyID of package rsaoaep: [ok, id]
rsaoaepKeyIDOf(key) ==
   IF ~asn1Marshal(key).ok THEN [ok |-> FALSE, id |-> ""]
   ELSE [ok |-> TRUE, id |-> EncodeToString(Sum256(asn1Marshal(key).bytes))]

\* the same for the keys of the model, computed once
rsaoaepKeyIDs == [k \in RecipientKeys |-> rsaoaepKeyIDOf(k)]

\* identifiers that are the digest of the modulus bytes alone
modulusIDs ==
   [k \in RecipientKeys |->
      IF ~k.hasN THEN [ok |-> FALSE, id |-> ""]
      ELSE [ok |-> TRUE, id |-> EncodeToString(Sum256(k.N))]]

\* a keyID that leaves the exponent out of what it digests
rsaoaepKeyIDOfModulus(key) ==
   IF key \in DOMAIN modulusIDs THEN modulusIDs[key]
   ELSE [ok |-> key.hasN, id |-> EncodeToString(Sum256(key.N))]

rsaoaepKeyID(key) ==
   IF key \in DOMAIN rsaoaepKeyIDs THEN rsaoaepKeyIDs[key] ELSE rsaoaepKeyIDOf(key)

----------------------------------------------------------------------------
(* Errors.  An error is a record [kind, detail]; the nil error is NoErr.   *)
(* fmt.Errorf("problem with key %q: %w", name, err) keeps name and err.    *)

Err(kind, detail) == [kind |-> kind, detail |-> detail, key |-> "", inner |-> <<>>]

NoErr == Err("nil", "")

\* age.ErrIncorrectIdentity
ErrIncorrectIdentity == Err("age.ErrIncorrectIdentity", "incorrect identity for recipient block")

ErrInvalidRecipient == Err("fmt.Errorf", "invalid kms-rsa-oaep-sha256 recipient")

\* an error returned by the KMS client (a gRPC status)
RpcErr(code) == Err("rpc error", code)

ProblemWithKey(name, err) ==
   [kind |-> "fmt.Errorf", detail |-> "problem with key", key |-> name, inner |-> <<err>>]

----------------------------------------------------------------------------
(* The key-management backend, as this code sees it.                       *)

SupportedAlgorithms ==
   {"RSA_DECRYPT_OAEP_2048_SHA256", "RSA_DECRYPT_OAEP_3072_SHA256",
    "RSA_DECRYPT_OAEP_4096_SHA256"}

\* A PEM text: whether pem.Decode finds a block, the block's type, and what
\* its bytes are: form "pkix" is a SubjectPublicKeyInfo holding a key of
\* algorithm alg, any other form is not parsed by x509.ParsePKIXPublicKey.
Pem(found, type, form, alg, key) ==
   [found |-> found, Type |-> type, form |-> form, alg |-> alg, key |-> key]

PublicKeyResp(name, algorithm, pem) ==
   [err |-> NoErr, Name |-> name, Algorithm |-> algorithm, Pem |-> pem]

\* The key versions the backend holds, by resource name.
Backend ==
   [n \in {"keys/a/1", "keys/a-copy/1", "keys/b/1", "keys/sign/1", "keys/nopem/1",
           "keys/pkix/1", "keys/pkcs1/1", "keys/ec/1"} |->
      CASE n = "keys/a/1" ->
              PublicKeyResp(n, "RSA_DECRYPT_OAEP_2048_SHA256",
                            Pem(TRUE, "RSA PUBLIC KEY", "pkix", "rsa", KeyA))
        [] n = "keys/a-copy/1" ->
              PublicKeyResp(n, "RSA_DECRYPT_OAEP_3072_SHA256",
                            Pem(TRUE, "RSA PUBLIC KEY", "pkix", "rsa", KeyA))
        [] n = "keys/b/1" ->
              PublicKeyResp(n, "RSA_DECRYPT_OAEP_4096_SHA256",
                            Pem(TRUE, "RSA PUBLIC KEY", "pkix", "rsa", KeyB))
        [] n = "keys/sign/1" ->
              PublicKeyResp(n, "RSA_SIGN_PSS_2048_SHA256",
                            Pem(TRUE, "RSA PUBLIC KEY", "pkix", "rsa", KeyB))
        [] n = "keys/nopem/1" ->
              PublicKeyResp(n, "RSA_DECRYPT_OAEP_2048_SHA256",
                            Pem(FALSE, "", "none", "", NoKey))
        [] n = "keys/pkix/1" ->
              PublicKeyResp(n, "RSA_DECRYPT_OAEP_2048_SHA256",
                            Pem(TRUE, "PUBLIC KEY", "pkix", "rsa", KeyB))
        [] n = "keys/pkcs1/1" ->
              PublicKeyResp(n, "RSA_DECRYPT_OAEP_2048_SHA256",
                            Pem(TRUE, "RSA PUBLIC KEY", "pkcs1", "rsa", KeyB))
        [] n = "keys/ec/1" ->
              PublicKeyResp(n, "RSA_DECRYPT_OAEP_2048_SHA256",
                            Pem(TRUE, "RSA PUBLIC KEY", "pkix", "ec", NoKey))]

\* the names a caller may configure: the backend's, and one it does not hold
KeyNames == DOMAIN Backend \cup {"keys/missing/1"}

\* kmsClient.GetPublicKey
GetPublicKey(name) ==
   IF name \in DOMAIN Backend THEN Backend[name]
   ELSE [err |-> RpcErr("NotFound"), Name |-> "", Algorithm |-> "",
         Pem |-> Pem(FALSE, "", "none", "", NoKey)]

----------------------------------------------------------------------------
(* RSA-OAEP.  crypto/rsa and the backend's private-key operation are not   *)
(* part of this code; they are modelled by their contract: EncryptOAEP     *)
(* refuses a message longer than k - 2*hLen - 2, fails when the random     *)
(* source does, and otherwise yields k bytes that only the private key of  *)
(* the same (N, E) turns back into the message.                            *)

\* sha256.Size, the hLen of OAEP with sha256.New()
sha256Size == 32

\* what binds a ciphertext of the stand-in to its key
oaepKeyMark(pub) == SubSeq(pub.N, 1, 7) \o <<pub.E % 256>>

\* rsa.EncryptOAEP(sha256.New(), rand.Reader, pub, msg, nil); seed is what
\* rand.Reader yields, or -1 when reading it fails
EncryptOAEP(pub, msg, seed) ==
   LET k == Len(pub.N)
   IN  IF Len(msg) > k - 2 * sha256Size - 2
       THEN [err |-> Err("rsa", "message too long for RSA key size"), out |-> <<>>]
       ELSE IF seed < 0
       THEN [err |-> Err("rand", "read failed"), out |-> <<>>]
       ELSE [err |-> NoErr,
             out |-> <<0, seed>> \o oaepKeyMark(pub) \o <<Len(msg)>> \o msg
                     \o [i \in 1..(k - 11 - Len(msg)) |-> (seed * 31 + i * 7) % 256]]

\* the inverse, with the private key that belongs to pub
DecryptOAEP(pub, ct) ==
   IF Len(ct) # Len(pub.N) \/ Len(ct) < 11 THEN [ok |-> FALSE, msg |-> <<>>]
   ELSE IF ct[1] # 0 \/ SubSeq(ct, 3, 10) # oaepKeyMark(pub) \/ 11 + ct[11] > Len(ct)
   THEN [ok |-> FALSE, msg |-> <<>>]
   ELSE [ok |-> TRUE, msg |-> SubSeq(ct, 12, 11 + ct[11])]

----------------------------------------------------------------------------
(* package gcpkms: the registry.                                           *)

parsePEMEncodedRSAPublicKey(pem) ==
   IF ~pem.found THEN [err |-> Err("fmt.Errorf", "no PEM blocks found"), key |-> NoKey]
   ELSE IF pem.Type # "RSA PUBLIC KEY"
   THEN [err |-> Err("fmt.Errorf", "found unexpected PEM block"), key |-> NoKey]
   ELSE IF pem.form # "pkix"
   THEN [err |-> Err("x509", "failed to parse public key"), key |-> NoKey]
   ELSE IF pem.alg # "rsa"
   THEN [err |-> Err("fmt.Errorf", "failed to parse"), key |-> NoKey]
   ELSE [err |-> NoErr, key |-> pem.key]

\* a map write that keeps the entry already there
MapPutFirst(m, k, v) == [x \in DOMAIN m \cup {k} |-> IF x \in DOMAIN m THEN m[x] ELSE v]

\* m[k] = v of a Go map
MapPut(m, k, v) == [x \in DOMAIN m \cup {k} |-> IF x = k THEN v ELSE m[x]]

\* name, ok := m[k] of a Go map: the zero value when k is absent
MapGet(m, k) == IF k \in DOMAIN m THEN m[k] ELSE ""

\* addKey that passes over a key of an unsupported algorithm
addKeySkipUnsupported(reg, name) ==
   LET resp == GetPublicKey(name)
   IN  IF resp.err # NoErr THEN [err |-> resp.err, reg |-> reg]
       ELSE IF resp.Algorithm \notin SupportedAlgorithms
       THEN [err |-> NoErr, reg |-> reg]
       ELSE LET parsed == parsePEMEncodedRSAPublicKey(resp.Pem)
            IN  IF parsed.err # NoErr THEN [err |-> parsed.err, reg |-> reg]
                ELSE LET id == keyID(parsed.key)
                     IN  IF ~id.ok
                         THEN [err |-> Err("asn1", "empty integer"), reg |-> reg]
                         ELSE [err |-> NoErr, reg |-> MapPut(reg, id.id, resp.Name)]

\* c.addKey(ctx, name) on the map reg: [err, reg]
addKey(reg, name) ==
   LET resp == GetPublicKey(name)
   IN  IF resp.err # NoErr THEN [err |-> resp.err, reg |-> reg]
       ELSE IF resp.Algorithm \notin SupportedAlgorithms
       THEN [err |-> Err("fmt.Errorf", "unsupported key type"), reg |-> reg]
       ELSE LET parsed == parsePEMEncodedRSAPublicKey(resp.Pem)
            IN  IF parsed.err # NoErr THEN [err |-> parsed.err, reg |-> reg]
                ELSE LET id == keyID(parsed.key)
                     IN  IF ~id.ok
                         THEN [err |-> Err("asn1", "empty integer"), reg |-> reg]
                         ELSE [err |-> NoErr, reg |-> MapPut(reg, id.id, resp.Name)]

----------------------------------------------------------------------------
(* State.                                                                  *)

VARIABLES
   kmsClient,     \* the KeyManagementClient: "none", "open" or "closed"
   names,         \* the names NewClient was called with
   pcNew,         \* NewClient: "init", "loop" or "returned"
   nameByKeyID,   \* client.nameByKeyID
   newRet,        \* what NewClient returned: [client, err]
   fetched,       \* the names of the GetPublicKey requests issued, in order
   call,          \* the Unwrap call under way or last returned
   recipient,     \* the rsaoaep recipient: [made, key, keyID]
   wrapRet,       \* the last Wrap call: [called, fileKey, stanzas, err]
   call2,         \* the Unwrap call of a second goroutine on the same client
   ident          \* two keys and the identifiers each package's keyID gave them

vars == <<kmsClient, names, pcNew, nameByKeyID, newRet, fetched, call,
          recipient, wrapRet, call2, ident>>

EmptyMap == [x \in {} |-> ""]

NoRequest == [Name |-> "", Ciphertext |-> <<>>, CiphertextCrc32C |-> <<0, 0>>]

NoResponse == [err |-> NoErr, Plaintext |-> <<>>]

\* no Unwrap call yet
IdleCall ==
   [pc |-> "idle", stanzas |-> <<>>, at |-> 0, examined |-> 0, lookups |-> <<>>,
    sent |-> <<>>, resp |-> NoResponse, ret |-> [fileKey |-> <<>>, err |-> NoErr]]

\* no key has been handed to keyID on its own
NoIdent == [k1 |-> NoKey, k2 |-> NoKey, gcpkms |-> <<>>, rsaoaep |-> <<>>]

Init ==
   /\ kmsClient = "none"
   /\ names = <<>>
   /\ pcNew = "init"
   /\ nameByKeyID = EmptyMap
   /\ newRet = [client |-> FALSE, err |-> NoErr]
   /\ fetched = <<>>
   /\ call = IdleCall
   /\ recipient = [made |-> FALSE, key |-> NoKey, keyID |-> ""]
   /\ wrapRet = [called |-> FALSE, fileKey |-> <<>>, stanzas |-> <<>>, err |-> NoErr]
   /\ call2 = IdleCall
   /\ ident = NoIdent

----------------------------------------------------------------------------
(* NewClient.                                                              *)

RECURSIVE SeqsUpTo(_, _)
SeqsUpTo(S, n) ==
   IF n = 0 THEN {<<>>}
   ELSE LET shorter == SeqsUpTo(S, n - 1)
        IN  shorter \cup {Append(q, x) : q \in shorter, x \in S}

NameLists == SeqsUpTo(KeyNames, MaxNames)

\* NewClient up to its loop: kms.NewKeyManagementClient succeeds or fails
NewClient(ns, dialed) ==
   /\ pcNew = "init"
   /\ names' = ns
   /\ IF dialed
      THEN /\ kmsClient' = "open"
           /\ pcNew' = "loop"
           /\ newRet' = newRet
      ELSE /\ kmsClient' = kmsClient
           /\ pcNew' = "returned"
           /\ newRet' = [client |-> FALSE, err |-> RpcErr("dial")]
   /\ nameByKeyID' = EmptyMap
   /\ UNCHANGED <<fetched, call, recipient, wrapRet, call2, ident>>

\* a loop that notes the error of a name and goes on to the names after it
NewClientAddKeyContinue ==
   /\ pcNew = "loop"
   /\ Len(fetched) < Len(names)
   /\ LET name == names[Len(fetched) + 1]
          r    == addKey(nameByKeyID, name)
          last == Len(fetched) + 1 = Len(names)
      IN  /\ fetched' = Append(fetched, name)
          /\ nameByKeyID' = r.reg
          /\ newRet' = IF r.err # NoErr /\ newRet.err = NoErr
                       THEN [client |-> FALSE, err |-> ProblemWithKey(name, r.err)]
                       ELSE newRet
          /\ pcNew' = IF last /\ newRet'.err # NoErr THEN "returned" ELSE pcNew
   /\ UNCHANGED <<kmsClient, names, call, recipient, wrapRet, call2, ident>>

\* one turn of the loop over names: cl.addKey, and the return on its error
NewClientAddKey ==
   /\ pcNew = "loop"
   /\ Len(fetched) < Len(names)
   /\ LET name == names[Len(fetched) + 1]
          r    == addKey(nameByKeyID, name)
      IN  /\ fetched' = Append(fetched, name)
          /\ nameByKeyID' = r.reg
          /\ IF r.err # NoErr
             THEN /\ pcNew' = "returned"
                  /\ newRet' = [client |-> FALSE, err |-> ProblemWithKey(name, r.err)]
             ELSE /\ pcNew' = pcNew
                  /\ newRet' = newRet
   /\ UNCHANGED <<kmsClient, names, call, recipient, wrapRet, call2, ident>>

\* the loop is over: return &cl, nil
NewClientReturn ==
   /\ pcNew = "loop"
   /\ Len(fetched) = Len(names)
   /\ pcNew' = "returned"
   /\ newRet' = [client |-> TRUE, err |-> NoErr]
   /\ UNCHANGED <<kmsClient, names, nameByKeyID, fetched, call, recipient, wrapRet, call2, ident>>

----------------------------------------------------------------------------
(* Stanzas: [Type, Args, Body].                                            *)

Stanza(type, args, body) == [Type |-> type, Args |-> args, Body |-> body]

\* the stanza type of this protocol
StanzaType == "kms-rsa-oaep-sha256"

FileKey1 == [i \in 1..16 |-> (i * 13 + 5) % 256]

FileKey2 == [i \in 1..16 |-> (i * 29 + 77) % 256]

\* one byte more than a 96-byte modulus takes
FileKeyLong == [i \in 1..31 |-> (i * 3 + 1) % 256]

FileKeys == {FileKey1, FileKey2, FileKeyLong}

\* what rand.Reader may yield to EncryptOAEP; -1: the read fails
Seeds == {7, 9, -1}

\* a stanza of another recipient type
StOther == Stanza("X25519", <<"L+V9o0fNYkMVKNqsX7spBzD/9oSvxM/C7ZCZX1jLO3Q">>, <<1, 2, 3>>)

StForA == Stanza(StanzaType, <<keyID(KeyA).id>>, EncryptOAEP(KeyA, FileKey1, 7).out)

StForB == Stanza(StanzaType, <<keyID(KeyB).id>>, EncryptOAEP(KeyB, FileKey2, 9).out)

\* for a key no backend name resolves to
StForC == Stanza(StanzaType, <<keyID(KeyC).id>>, EncryptOAEP(KeyC, FileKey1, 9).out)

StNoArgs == Stanza(StanzaType, <<>>, EncryptOAEP(KeyA, FileKey2, 7).out)

StTwoArgs ==
   Stanza(StanzaType, <<keyID(KeyA).id, keyID(KeyB).id>>, EncryptOAEP(KeyA, FileKey2, 9).out)

Stanzas == {StOther, StForA, StForB, StForC, StNoArgs, StTwoArgs}

\* the checksums of the stanza bodies above and of what Wrap can yield, kept
\* so that they are computed once
castagnoliSums ==
   ChecksumsOf({st.Body : st \in Stanzas} \cup
               {EncryptOAEP(k, fk, seed).out :
                   k \in RecipientKeys \ {KeyNil}, fk \in FileKeys, seed \in Seeds})

\* the checksum of data, from sums when it is there
ChecksumVia(sums, data) ==
   IF data \in DOMAIN sums THEN sums[data] ELSE Checksum(data, MakeTable)

crc32c(data) == ChecksumVia(castagnoliSums, data)

StanzaLists == SeqsUpTo(Stanzas, MaxStanzas)

----------------------------------------------------------------------------
(* client.Unwrap and client.Close.                                         *)

\* DecryptRequest with the stanza's identifier in the place of the key name
DecryptRequestByID(name, stanza) ==
   [Name |-> stanza.Args[1], Ciphertext |-> stanza.Body,
    CiphertextCrc32C |-> crc32c(stanza.Body)]

\* the AsymmetricDecryptRequest for a stanza resolved to name;
\* int64(uint32) keeps the checksum's value
DecryptRequest(name, stanza) ==
   [Name |-> name, Ciphertext |-> stanza.Body, CiphertextCrc32C |-> crc32c(stanza.Body)]

\* an AsymmetricDecrypt that goes on answering over a closed connection
AsymmetricDecryptAfterClose(conn, req) ==
   {[err |-> RpcErr("Unavailable"), Plaintext |-> <<>>]} \cup
   {IF req.Name \notin DOMAIN Backend
    THEN [err |-> RpcErr("NotFound"), Plaintext |-> <<>>]
    ELSE LET d == DecryptOAEP(Backend[req.Name].Pem.key, req.Ciphertext)
         IN  IF d.ok THEN [err |-> NoErr, Plaintext |-> d.msg]
             ELSE [err |-> RpcErr("InvalidArgument"), Plaintext |-> <<>>]}

\* kmsClient.AsymmetricDecrypt: the responses the backend may give to req
\* over a connection in state conn
AsymmetricDecrypt(conn, req) ==
   IF conn # "open"
   THEN {[err |-> RpcErr("Canceled"), Plaintext |-> <<>>]}
   ELSE {[err |-> RpcErr("Unavailable"), Plaintext |-> <<>>]} \cup
        {IF req.Name \notin DOMAIN Backend
         THEN [err |-> RpcErr("NotFound"), Plaintext |-> <<>>]
         ELSE IF Backend[req.Name].Algorithm \notin SupportedAlgorithms
         THEN [err |-> RpcErr("FailedPrecondition"), Plaintext |-> <<>>]
         ELSE IF req.CiphertextCrc32C # crc32c(req.Ciphertext)
         THEN [err |-> RpcErr("InvalidArgument"), Plaintext |-> <<>>]
         ELSE LET d == DecryptOAEP(Backend[req.Name].Pem.key, req.Ciphertext)
              IN  IF d.ok THEN [err |-> NoErr, Plaintext |-> d.msg]
                  ELSE [err |-> RpcErr("InvalidArgument"), Plaintext |-> <<>>]}

\* unwrapLoop without the ok of the map read: a stanza whose identifier is
\* not in the map is sent on with the empty name
RECURSIVE unwrapLoopNoOk(_, _, _, _)
unwrapLoopNoOk(stanzas, reg, i, looked) ==
   IF i > Len(stanzas)
   THEN [end |-> "exhausted", at |-> 0, examined |-> Len(stanzas), lookups |-> looked]
   ELSE IF stanzas[i].Type # StanzaType
   THEN unwrapLoopNoOk(stanzas, reg, i + 1, looked)
   ELSE IF Len(stanzas[i].Args) # 1
   THEN [end |-> "malformed", at |-> i, examined |-> i, lookups |-> looked]
   ELSE [end |-> "dispatch", at |-> i, examined |-> i, lookups |-> Append(looked, i)]

\* unwrapLoop that only refuses a stanza without arguments
RECURSIVE unwrapLoopArgs0(_, _, _, _)
unwrapLoopArgs0(stanzas, reg, i, looked) ==
   IF i > Len(stanzas)
   THEN [end |-> "exhausted", at |-> 0, examined |-> Len(stanzas), lookups |-> looked]
   ELSE IF stanzas[i].Type # StanzaType
   THEN unwrapLoopArgs0(stanzas, reg, i + 1, looked)
   ELSE IF Len(stanzas[i].Args) < 1
   THEN [end |-> "malformed", at |-> i, examined |-> i, lookups |-> looked]
   ELSE IF stanzas[i].Args[1] \notin DOMAIN reg
   THEN unwrapLoopArgs0(stanzas, reg, i + 1, Append(looked, i))
   ELSE [end |-> "dispatch", at |-> i, examined |-> i, lookups |-> Append(looked, i)]

\* The loop of Unwrap from stanza i on, up to its first return or backend
\* call: how it ends ("dispatch", "malformed", "exhausted"), at which stanza,
\* how many stanzas it looked at, and for which ones it read the map (looked).
RECURSIVE unwrapLoop(_, _, _, _)
unwrapLoop(stanzas, reg, i, looked) ==
   IF i > Len(stanzas)
   THEN [end |-> "exhausted", at |-> 0, examined |-> Len(stanzas), lookups |-> looked]
   ELSE IF stanzas[i].Type # StanzaType
   THEN unwrapLoop(stanzas, reg, i + 1, looked)
   ELSE IF Len(stanzas[i].Args) # 1
   THEN [end |-> "malformed", at |-> i, examined |-> i, lookups |-> looked]
   ELSE IF stanzas[i].Args[1] \notin DOMAIN reg
   THEN unwrapLoop(stanzas, reg, i + 1, Append(looked, i))
   ELSE [end |-> "dispatch", at |-> i, examined |-> i, lookups |-> Append(looked, i)]

\* Unwrap(stanzas) up to its backend call, or to its return without one
Unwrap(stanzas) ==
   /\ newRet.client
   /\ call.pc = "idle"
   /\ LET r == unwrapLoop(stanzas, nameByKeyID, 1, <<>>)
          c == [IdleCall EXCEPT !.stanzas = stanzas, !.at = r.at,
                                !.examined = r.examined, !.lookups = r.lookups]
      IN  call' =
             IF r.end = "dispatch"
             THEN [c EXCEPT !.pc = "decrypting",
                            !.sent = <<DecryptRequest(MapGet(nameByKeyID, stanzas[r.at].Args[1]),
                                                      stanzas[r.at])>>]
             ELSE IF r.end = "malformed"
             THEN [c EXCEPT !.pc = "returned",
                            !.ret = [fileKey |-> <<>>, err |-> ErrInvalidRecipient]]
             ELSE [c EXCEPT !.pc = "returned",
                            !.ret = [fileKey |-> <<>>, err |-> ErrIncorrectIdentity]]
   /\ UNCHANGED <<kmsClient, names, pcNew, nameByKeyID, newRet, fetched,
                  recipient, wrapRet, call2, ident>>

\* UnwrapResponse that takes a backend error for "not this stanza" and goes
\* on with the stanzas after it
UnwrapResponseResume ==
   /\ call.pc = "decrypting"
   /\ \E resp \in AsymmetricDecrypt(kmsClient, call.sent[Len(call.sent)]) :
         IF resp.err = NoErr
         THEN call' = [call EXCEPT !.pc = "returned", !.resp = resp,
                                   !.ret = [fileKey |-> resp.Plaintext, err |-> NoErr]]
         ELSE LET r == unwrapLoop(call.stanzas, nameByKeyID, call.at + 1, call.lookups)
              IN  call' =
                     IF r.end = "dispatch"
                     THEN [call EXCEPT !.resp = resp, !.at = r.at,
                              !.examined = r.examined, !.lookups = r.lookups,
                              !.sent = Append(call.sent,
                                 DecryptRequest(MapGet(nameByKeyID,
                                                       call.stanzas[r.at].Args[1]),
                                                call.stanzas[r.at]))]
                     ELSE [call EXCEPT !.pc = "returned", !.resp = resp,
                              !.examined = r.examined, !.lookups = r.lookups,
                              !.ret = [fileKey |-> <<>>,
                                       err |-> IF r.end = "malformed"
                                               THEN ErrInvalidRecipient
                                               ELSE ErrIncorrectIdentity]]
   /\ UNCHANGED <<kmsClient, names, pcNew, nameByKeyID, newRet, fetched,
                  recipient, wrapRet, call2, ident>>

\* UnwrapResponse that reports a backend error as ErrIncorrectIdentity
UnwrapResponseAsIncorrect ==
   /\ call.pc = "decrypting"
   /\ \E resp \in AsymmetricDecrypt(kmsClient, call.sent[Len(call.sent)]) :
         call' = [call EXCEPT !.pc = "returned",
                              !.resp = resp,
                              !.ret = IF resp.err # NoErr
                                      THEN [fileKey |-> <<>>, err |-> ErrIncorrectIdentity]
                                      ELSE [fileKey |-> resp.Plaintext, err |-> NoErr]]
   /\ UNCHANGED <<kmsClient, names, pcNew, nameByKeyID, newRet, fetched,
                  recipient, wrapRet, call2, ident>>

\* the backend answers: Unwrap returns its error or its plaintext
UnwrapResponse ==
   /\ call.pc = "decrypting"
   /\ \E resp \in AsymmetricDecrypt(kmsClient, call.sent[Len(call.sent)]) :
         call' = [call EXCEPT !.pc = "returned",
                              !.resp = resp,
                              !.ret = IF resp.err # NoErr
                                      THEN [fileKey |-> <<>>, err |-> resp.err]
                                      ELSE [fileKey |-> resp.Plaintext, err |-> NoErr]]
   /\ UNCHANGED <<kmsClient, names, pcNew, nameByKeyID, newRet, fetched,
                  recipient, wrapRet, call2, ident>>

\* the caller has taken what Unwrap returned; the next call may begin
UnwrapDone ==
   /\ call.pc = "returned"
   /\ call' = IdleCall
   /\ UNCHANGED <<kmsClient, names, pcNew, nameByKeyID, newRet, fetched,
                  recipient, wrapRet, call2, ident>>

\* what the second goroutine hands to Unwrap
ConcurrentStanzas == {StOther, StForA, StForB, StTwoArgs}

MaxConcurrentStanzas == 2

ConcurrentStanzaLists == SeqsUpTo(ConcurrentStanzas, MaxConcurrentStanzas)

\* the names of the clients the two goroutines share
ConcurrentNameLists ==
   {<<>>, <<"keys/a/1">>, <<"keys/b/1", "keys/a/1">>, <<"keys/a/1", "keys/missing/1">>}

\* Unwrap(stanzas) in a second goroutine, up to its backend call or to its
\* return without one; stanza, name, ok, req are locals of the call
Unwrap2(stanzas) ==
   /\ newRet.client
   /\ call2.pc = "idle"
   /\ LET r == unwrapLoop(stanzas, nameByKeyID, 1, <<>>)
          c == [IdleCall EXCEPT !.stanzas = stanzas, !.at = r.at,
                                !.examined = r.examined, !.lookups = r.lookups]
      IN  call2' =
             IF r.end = "dispatch"
             THEN [c EXCEPT !.pc = "decrypting",
                            !.sent = <<DecryptRequest(MapGet(nameByKeyID, stanzas[r.at].Args[1]),
                                                      stanzas[r.at])>>]
             ELSE IF r.end = "malformed"
             THEN [c EXCEPT !.pc = "returned",
                            !.ret = [fileKey |-> <<>>, err |-> ErrInvalidRecipient]]
             ELSE [c EXCEPT !.pc = "returned",
                            !.ret = [fileKey |-> <<>>, err |-> ErrIncorrectIdentity]]
   /\ UNCHANGED <<kmsClient, names, pcNew, nameByKeyID, newRet, fetched,
                  call, recipient, wrapRet, ident>>

\* UnwrapResponse2 of a client that keeps the request under way in a field
\* both goroutines write: the answer is to the request written last
UnwrapResponse2Shared ==
   /\ call2.pc = "decrypting"
   /\ LET req == IF call.pc = "decrypting" THEN call.sent[Len(call.sent)]
                 ELSE call2.sent[Len(call2.sent)]
      IN  \E resp \in AsymmetricDecrypt(kmsClient, req) :
             call2' = [call2 EXCEPT !.pc = "returned",
                                    !.resp = resp,
                                    !.ret = IF resp.err # NoErr
                                            THEN [fileKey |-> <<>>, err |-> resp.err]
                                            ELSE [fileKey |-> resp.Plaintext, err |-> NoErr]]
   /\ UNCHANGED <<kmsClient, names, pcNew, nameByKeyID, newRet, fetched,
                  call, recipient, wrapRet, ident>>

\* the backend answers the second goroutine's request
UnwrapResponse2 ==
   /\ call2.pc = "decrypting"
   /\ \E resp \in AsymmetricDecrypt(kmsClient, call2.sent[Len(call2.sent)]) :
         call2' = [call2 EXCEPT !.pc = "returned",
                                !.resp = resp,
                                !.ret = IF resp.err # NoErr
                                        THEN [fileKey |-> <<>>, err |-> resp.err]
                                        ELSE [fileKey |-> resp.Plaintext, err |-> NoErr]]
   /\ UNCHANGED <<kmsClient, names, pcNew, nameByKeyID, newRet, fetched,
                  call, recipient, wrapRet, ident>>

\* the second goroutine has taken what Unwrap returned
UnwrapDone2 ==
   /\ call2.pc = "returned"
   /\ call2' = IdleCall
   /\ UNCHANGED <<kmsClient, names, pcNew, nameByKeyID, newRet, fetched,
                  call, recipient, wrapRet, ident>>

\* a Close that also drops the registry
CloseAndClear ==
   /\ newRet.client
   /\ kmsClient' = "closed"
   /\ nameByKeyID' = EmptyMap
   /\ UNCHANGED <<names, pcNew, newRet, fetched, call, recipient, wrapRet, call2, ident>>

\* Close: c.kmsClient.Close()
Close ==
   /\ newRet.client
   /\ kmsClient' = "closed"
   /\ UNCHANGED <<names, pcNew, nameByKeyID, newRet, fetched, call, recipient, wrapRet, call2, ident>>

----------------------------------------------------------------------------
(* package rsaoaep: NewRecipient and recipient.Wrap.                       *)

NewRecipient(key) ==
   /\ ~recipient.made
   /\ LET id == rsaoaepKeyID(key)
      IN  recipient' = IF id.ok THEN [made |-> TRUE, key |-> key, keyID |-> id.id]
                       ELSE recipient
   /\ UNCHANGED <<kmsClient, names, pcNew, nameByKeyID, newRet, fetched, call, wrapRet, call2, ident>>

\* recipientWrap that hands back the stanza it had begun along with the error
recipientWrapPartial(r, fileKey, seed) ==
   LET enc == EncryptOAEP(r.key, fileKey, seed)
   IN  [stanzas |-> <<Stanza(StanzaType, <<r.keyID>>, enc.out)>>, err |-> enc.err]

\* recipientWrap with the stanza type of agessh's RSA recipient
recipientWrapSSH(r, fileKey, seed) ==
   LET enc == EncryptOAEP(r.key, fileKey, seed)
   IN  IF enc.err # NoErr THEN [stanzas |-> <<>>, err |-> enc.err]
       ELSE [stanzas |-> <<Stanza("ssh-rsa", <<r.keyID>>, enc.out)>>, err |-> NoErr]

\* r.Wrap(fileKey): [stanzas, err]
recipientWrap(r, fileKey, seed) ==
   LET enc == EncryptOAEP(r.key, fileKey, seed)
   IN  IF enc.err # NoErr THEN [stanzas |-> <<>>, err |-> enc.err]
       ELSE [stanzas |-> <<Stanza(StanzaType, <<r.keyID>>, enc.out)>>, err |-> NoErr]

Wrap(fileKey, seed) ==
   /\ recipient.made
   /\ LET w == recipientWrap(recipient, fileKey, seed)
      IN  wrapRet' = [called |-> TRUE, fileKey |-> fileKey,
                      stanzas |-> w.stanzas, err |-> w.err]
   /\ UNCHANGED <<kmsClient, names, pcNew, nameByKeyID, newRet, fetched, call, recipient, call2, ident>>

----------------------------------------------------------------------------
(* Specifications.                                                         *)

\* the identity, over every stanza list of the model
Next ==
   \/ \E ns \in NameLists, dialed \in BOOLEAN : NewClient(ns, dialed)
   \/ NewClientAddKey
   \/ NewClientReturn
   \/ \E stanzas \in StanzaLists : Unwrap(stanzas)
   \/ UnwrapResponse
   \/ UnwrapDone
   \/ Close

Spec == Init /\ [][Next]_vars

\* a call on the backend returns: over a closed connection at once, and
\* otherwise when the backend answers or the connection fails
SpecLive == Init /\ [][Next]_vars /\ WF_vars(UnwrapResponse)

\* recipient and identity together: Unwrap is handed what Wrap returned
NextRoundTrip ==
   \/ \E ns \in NameLists, dialed \in BOOLEAN : NewClient(ns, dialed)
   \/ NewClientAddKey
   \/ NewClientReturn
   \/ \E key \in RecipientKeys : NewRecipient(key)
   \/ \E fileKey \in FileKeys, seed \in Seeds : Wrap(fileKey, seed)
   \/ (wrapRet.called /\ Unwrap(wrapRet.stanzas))
   \/ UnwrapResponse
   \/ UnwrapDone
   \/ Close

SpecRoundTrip == Init /\ [][NextRoundTrip]_vars

\* two goroutines call Unwrap on one client, in any interleaving with each
\* other and with Close
NextConcurrent ==
   \/ \E ns \in ConcurrentNameLists, dialed \in BOOLEAN : NewClient(ns, dialed)
   \/ NewClientAddKey
   \/ NewClientReturn
   \/ \E stanzas \in ConcurrentStanzaLists : Unwrap(stanzas)
   \/ UnwrapResponse
   \/ UnwrapDone
   \/ \E stanzas \in ConcurrentStanzaLists : Unwrap2(stanzas)
   \/ UnwrapResponse2
   \/ UnwrapDone2
   \/ Close

SpecConcurrent == Init /\ [][NextConcurrent]_vars

\* the keys handed to keyID on its own: moduli of 64, 96, 128 and 256
\* bytes, with the top bit set and clear, alike but for one byte or but for
\* the exponent
Key128 == [hasN |-> TRUE, N |-> [i \in 1..128 |-> (i * 83 + 150) % 256], E |-> 65537]

Key256 == [hasN |-> TRUE, N |-> [i \in 1..256 |-> (i * 7 + 201) % 256], E |-> 65537]

KeyLow == [hasN |-> TRUE, N |-> [i \in 1..96 |-> (i * 37 + 90) % 256], E |-> 65537]

KeyA2 == [hasN |-> TRUE, N |-> [KeyA.N EXCEPT ![96] = (KeyA.N[96] + 2) % 256], E |-> 65537]

KeyB257 == [hasN |-> TRUE, N |-> KeyB.N, E |-> 257]

IdentifyKeys == RecipientKeys \cup {Key128, Key256, KeyLow, KeyA2, KeyB257}

\* two keys are chosen
InitIdentify ==
   /\ kmsClient = "none"
   /\ names = <<>>
   /\ pcNew = "init"
   /\ nameByKeyID = EmptyMap
   /\ newRet = [client |-> FALSE, err |-> NoErr]
   /\ fetched = <<>>
   /\ call = IdleCall
   /\ recipient = [made |-> FALSE, key |-> NoKey, keyID |-> ""]
   /\ wrapRet = [called |-> FALSE, fileKey |-> <<>>, stanzas |-> <<>>, err |-> NoErr]
   /\ call2 = IdleCall
   /\ \E k1 \in IdentifyKeys, k2 \in IdentifyKeys :
         ident = [NoIdent EXCEPT !.k1 = k1, !.k2 = k2]

\* gcpkms.keyID on each of the two keys
IdentifyGcpkms ==
   /\ ident.gcpkms = <<>>
   /\ ident' = [ident EXCEPT !.gcpkms = <<keyIDOf(ident.k1), keyIDOf(ident.k2)>>]
   /\ UNCHANGED <<kmsClient, names, pcNew, nameByKeyID, newRet, fetched, call,
                  recipient, wrapRet, call2>>

\* rsaoaep.keyID on each of the two keys
IdentifyRsaoaep ==
   /\ ident.rsaoaep = <<>>
   /\ ident' = [ident EXCEPT !.rsaoaep = <<rsaoaepKeyIDOf(ident.k1),
                                           rsaoaepKeyIDOf(ident.k2)>>]
   /\ UNCHANGED <<kmsClient, names, pcNew, nameByKeyID, newRet, fetched, call,
                  recipient, wrapRet, call2>>

NextIdentify == IdentifyGcpkms \/ IdentifyRsaoaep

SpecIdentify == InitIdentify /\ [][NextIdentify]_vars

----------------------------------------------------------------------------
(* What the claims speak of, said without the loop of Unwrap.              *)

Recognized(st) == st.Type = StanzaType

Malformed(st) == Recognized(st) /\ Len(st.Args) # 1

\* st names a key of the registry
Resolvable(st) ==
   Recognized(st) /\ Len(st.Args) = 1 /\ st.Args[1] \in DOMAIN nameByKeyID

\* st is of another type, or names a key the registry does not hold
NotForMe(st) ==
   ~Recognized(st) \/ (Len(st.Args) = 1 /\ st.Args[1] \notin DOMAIN nameByKeyID)

\* the scan gets as far as stanza i: every stanza before it is passed over
ScanReaches(stanzas, i) == \A j \in 1..(i - 1) : NotForMe(stanzas[j])

Range(q) == {q[i] : i \in 1..Len(q)}

Failed(err) == [fileKey |-> <<>>, err |-> err]

----------------------------------------------------------------------------
(* Claims.                                                                 *)

\* C1: when every stanza of the list is of another type, or is of the
\* recognized type with exactly one argument that the registry does not
\* hold (the empty list included), Unwrap returns ErrIncorrectIdentity and
\* sends the backend nothing.
C1_NoMatchIsIncorrectIdentity ==
   (call.pc # "idle" /\ \A i \in 1..Len(call.stanzas) : NotForMe(call.stanzas[i]))
      => /\ call.pc = "returned"
         /\ call.ret = Failed(ErrIncorrectIdentity)
         /\ call.sent = <<>>

\* a call over a list with a stanza of another type and a recognized stanza
\* for a key the registry does not hold has returned
C1_Witness ==
   /\ call.pc = "returned"
   /\ \A i \in 1..Len(call.stanzas) : NotForMe(call.stanzas[i])
   /\ \E i \in 1..Len(call.stanzas) : ~Recognized(call.stanzas[i])
   /\ \E i \in 1..Len(call.stanzas) : Recognized(call.stanzas[i])
   /\ nameByKeyID # EmptyMap

\* C2: when the scan reaches a stanza of the recognized type with no
\* argument or with two or more, Unwrap fails with the invalid-recipient
\* error: it has not read the registry for that stanza, has sent the backend
\* nothing and has looked at no later stanza, whatever comes later.
C2_MalformedIsHardFailure ==
   \A i \in 1..Len(call.stanzas) :
      (call.pc # "idle" /\ Malformed(call.stanzas[i]) /\ ScanReaches(call.stanzas, i))
         => /\ call.pc = "returned"
            /\ call.ret = Failed(ErrInvalidRecipient)
            /\ call.sent = <<>>
            /\ i \notin Range(call.lookups)
            /\ call.examined = i

\* a call has failed on a malformed stanza that a resolvable one follows
C2_Witness ==
   /\ call.pc = "returned"
   /\ \E i \in 1..Len(call.stanzas) :
         /\ Malformed(call.stanzas[i])
         /\ Len(call.stanzas[i].Args) > 1
         /\ ScanReaches(call.stanzas, i)
         /\ \E j \in (i + 1)..Len(call.stanzas) : Resolvable(call.stanzas[j])

\* C3: a call sends the backend at most one request; when the backend
\* answers it with an error, Unwrap returns that very error, which is not
\* ErrIncorrectIdentity, and has looked at no stanza after the one it sent.
C3_BackendErrorIsFinal ==
   /\ Len(call.sent) <= 1
   /\ (call.pc = "returned" /\ call.sent # <<>> /\ call.resp.err # NoErr)
         => /\ call.ret = Failed(call.resp.err)
            /\ call.ret.err # ErrIncorrectIdentity
            /\ call.examined = call.at

\* the backend has refused the stanza sent, and a later stanza names
\* another key of the registry
C3_Witness ==
   /\ call.pc = "returned"
   /\ call.sent # <<>>
   /\ call.resp.err # NoErr
   /\ \E j \in (call.at + 1)..Len(call.stanzas) :
         /\ Resolvable(call.stanzas[j])
         /\ call.stanzas[j].Args # call.stanzas[call.at].Args

\* the first stanza in list order that names a key of the registry; 0 if none
FirstResolvable(stanzas) ==
   IF \E i \in 1..Len(stanzas) : Resolvable(stanzas[i])
   THEN CHOOSE i \in 1..Len(stanzas) :
           /\ Resolvable(stanzas[i])
           /\ \A j \in 1..(i - 1) : ~Resolvable(stanzas[j])
   ELSE 0

\* the request the claim describes for stanza st
RequestFor(st) ==
   [Name |-> nameByKeyID[st.Args[1]], Ciphertext |-> st.Body,
    CiphertextCrc32C |-> crc32c(st.Body)]

\* C4: the only stanza a call sends to the backend is the first one in list
\* order that is of the recognized type, has exactly one argument and names
\* a key of the registry; the stanzas of other types and for unregistered
\* keys before it are passed over without error.  The request carries the
\* registry's handle for args[0], the stanza's body as it is and the CRC-32C
\* of that body.  On the backend's success Unwrap returns the backend's
\* plaintext and has looked at no stanza after that one.
C4_FirstResolvableIsDispatched ==
   LET f == FirstResolvable(call.stanzas)
   IN  /\ \A k \in 1..Len(call.sent) :
             /\ f > 0
             /\ call.at = f
             /\ call.sent[k] = RequestFor(call.stanzas[f])
       /\ (call.pc # "idle" /\ f > 0 /\ ScanReaches(call.stanzas, f))
             => call.sent # <<>>
       /\ (call.pc = "returned" /\ call.sent # <<>> /\ call.resp.err = NoErr)
             => /\ call.ret = [fileKey |-> call.resp.Plaintext, err |-> NoErr]
                /\ call.examined = f

\* a call has returned a plaintext for a stanza that stanzas passed over
\* precede and that a malformed stanza follows
C4_Witness ==
   /\ call.pc = "returned"
   /\ call.ret.err = NoErr
   /\ call.ret.fileKey # <<>>
   /\ call.at > 1
   /\ \E j \in (call.at + 1)..Len(call.stanzas) : Malformed(call.stanzas[j])

\* C5: Unwrap returns ErrIncorrectIdentity only when the scan ran to the end
\* of the list, reached no malformed stanza of the recognized type and sent
\* the backend nothing; and ErrIncorrectIdentity is neither the
\* invalid-recipient error nor an error of the backend.
C5_IncorrectIdentityOnlyWhenNothingMatched ==
   /\ (call.pc = "returned" /\ call.ret.err = ErrIncorrectIdentity)
         => /\ call.sent = <<>>
            /\ call.examined = Len(call.stanzas)
            /\ \A i \in 1..Len(call.stanzas) : NotForMe(call.stanzas[i])
   /\ (call.pc = "returned" /\ call.sent # <<>>)
         => call.ret.err \in {NoErr, call.resp.err} \ {ErrIncorrectIdentity}
   /\ (call.pc = "returned" /\ \E i \in 1..Len(call.stanzas) :
                                  Malformed(call.stanzas[i]) /\ ScanReaches(call.stanzas, i))
         => call.ret.err = ErrInvalidRecipient
   /\ ErrInvalidRecipient # ErrIncorrectIdentity

\* a call over a full list has returned ErrIncorrectIdentity from an
\* identity that holds two keys
C5_Witness ==
   /\ call.pc = "returned"
   /\ call.ret.err = ErrIncorrectIdentity
   /\ Len(call.stanzas) = MaxStanzas
   /\ Cardinality(DOMAIN nameByKeyID) = 2

\* some configured name is the backend's name of a key version holding key
ConfiguredKey(key) ==
   \E i \in 1..Len(names) :
      names[i] \in DOMAIN Backend /\ Backend[names[i]].Pem.key = key

\* the backend did not answer the request at all: the connection failed or
\* was closed
TransportFault(resp) == resp.err \in {RpcErr("Unavailable"), RpcErr("Canceled")}

Unsupported(name) ==
   name \in DOMAIN Backend /\ Backend[name].Algorithm \notin SupportedAlgorithms

UnsupportedAlgorithm == Err("fmt.Errorf", "unsupported key type")

\* what registering name alone comes to
RefErr(name) == addKey(EmptyMap, name).err

\* the place in names of the first name of an unsupported algorithm, or 0
FirstUnsupported ==
   IF \E i \in 1..Len(names) : Unsupported(names[i])
   THEN CHOOSE i \in 1..Len(names) :
           /\ Unsupported(names[i])
           /\ \A j \in 1..(i - 1) : ~Unsupported(names[j])
   ELSE 0

\* C7 as stated: the connection was opened and some configured name has an
\* unsupported algorithm tag, so NewClient returns no Client and the
\* unsupported-algorithm error.
C7_Original ==
   (pcNew = "returned" /\ kmsClient # "none" /\ FirstUnsupported > 0)
      => /\ ~newRet.client
         /\ newRet.err.inner = <<UnsupportedAlgorithm>>

\* C7 (amended): when any configured name has an unsupported algorithm tag,
\* NewClient returns an error and no Client, and no Unwrap ever runs on the
\* entries put in the map for earlier names; the error is the
\* unsupported-algorithm error of the first such name when the connection
\* was opened and every name before it registers without error.
C7_UnsupportedAlgorithmFailsConstruction ==
   (pcNew = "returned" /\ FirstUnsupported > 0)
      => /\ ~newRet.client
         /\ newRet.err # NoErr
         /\ call = IdleCall
         /\ (/\ kmsClient # "none"
             /\ \A j \in 1..(FirstUnsupported - 1) : RefErr(names[j]) = NoErr)
               => newRet.err =
                     ProblemWithKey(names[FirstUnsupported], UnsupportedAlgorithm)

\* NewClient has failed on an unsupported second name after putting the
\* first name's key in the map
C7_Witness ==
   /\ pcNew = "returned"
   /\ Len(names) = 2 /\ FirstUnsupported = 2
   /\ DOMAIN nameByKeyID # {}
   /\ ~newRet.client
   /\ newRet.err = ProblemWithKey(names[2], UnsupportedAlgorithm)

\* C8: once the connection is open, the GetPublicKey requests issued are
\* those of a prefix of names, one per name and in the order of names;
\* every name before the last one requested registered without error; and
\* NewClient returns a Client only after all names were requested, or else
\* returns, with no request for any later name, the error of the last name
\* requested with that name attached.
C8_StopsAtFirstFailure ==
   kmsClient # "none"
      => /\ Len(fetched) <= Len(names)
         /\ fetched = SubSeq(names, 1, Len(fetched))
         /\ \A j \in 1..(Len(fetched) - 1) : RefErr(names[j]) = NoErr
         /\ pcNew = "returned"
               => IF newRet.client
                  THEN /\ fetched = names
                       /\ \A j \in 1..Len(names) : RefErr(names[j]) = NoErr
                  ELSE /\ Len(fetched) >= 1
                       /\ RefErr(names[Len(fetched)]) # NoErr
                       /\ newRet.err =
                             ProblemWithKey(names[Len(fetched)],
                                            RefErr(names[Len(fetched)]))

\* NewClient has failed on a first name that the backend does not hold, and
\* the second name, which would register, was never requested
C8_Witness ==
   /\ pcNew = "returned" /\ kmsClient # "none"
   /\ ~newRet.client
   /\ Len(names) = 2 /\ Len(fetched) = 1
   /\ RefErr(names[1]) = RpcErr("NotFound")
   /\ RefErr(names[2]) = NoErr

\* the identifier of the key the backend holds under names[i]
IdOfName(i) == keyID(Backend[names[i]].Pem.key).id

\* the last place in names whose key has the identifier id
LastWithId(id) ==
   CHOOSE i \in 1..Len(names) :
      /\ IdOfName(i) = id
      /\ \A j \in (i + 1)..Len(names) : IdOfName(j) # id

C10_RegistryImmutable ==
   [][pcNew = "returned" => nameByKeyID' = nameByKeyID]_vars

\* an Unwrap has returned and Close has run, on a Client whose map still has
\* its two entries
C10_Witness ==
   /\ pcNew = "returned" /\ newRet.client
   /\ kmsClient = "closed"
   /\ call.pc = "returned"
   /\ Cardinality(DOMAIN nameByKeyID) = 2

\* the place of the first stanza the scan does not pass over; 0 if none
FirstStop(stanzas) ==
   IF \E i \in 1..Len(stanzas) : ~NotForMe(stanzas[i])
   THEN CHOOSE i \in 1..Len(stanzas) :
           ~NotForMe(stanzas[i]) /\ ScanReaches(stanzas, i)
   ELSE 0

\* the requests a call that runs alone sends for stanzas
AloneSent(stanzas) ==
   LET i == FirstStop(stanzas)
   IN  IF i > 0 /\ Resolvable(stanzas[i]) THEN <<RequestFor(stanzas[i])>> ELSE <<>>

\* what a call that runs alone returns for stanzas when no request is sent
AloneReturnUnsent(stanzas) ==
   IF FirstStop(stanzas) = 0 THEN Failed(ErrIncorrectIdentity)
   ELSE Failed(ErrInvalidRecipient)

\* what a call that runs alone returns on the backend's response resp
AloneReturn(resp) ==
   IF resp.err # NoErr THEN Failed(resp.err)
   ELSE [fileKey |-> resp.Plaintext, err |-> NoErr]

\* the call c asked and returned what it would have alone, against the same
\* registry and on the response the backend gave to its own request
Independent(c) ==
   c.pc # "idle"
      => /\ c.sent = AloneSent(c.stanzas)
         /\ c.pc = "returned"
               => IF c.sent = <<>>
                  THEN c.resp = NoResponse /\ c.ret = AloneReturnUnsent(c.stanzas)
                  ELSE /\ c.resp \in AsymmetricDecrypt("open", c.sent[1])
                                     \cup AsymmetricDecrypt("closed", c.sent[1])
                       /\ c.ret = AloneReturn(c.resp)

\* C11: in every interleaving of the Unwrap calls of two goroutines on one
\* client, each call sends the request and returns the result it would have
\* alone, against the same registry and the backend's response to its own
\* request.
C11_ConcurrentUnwrapIndependent == Independent(call) /\ Independent(call2)

\* the second goroutine has its file key back while the first one's request
\* for another key is still with the backend
C11_Witness ==
   /\ kmsClient = "open"
   /\ call.pc = "decrypting"
   /\ call2.pc = "returned"
   /\ call.sent # call2.sent
   /\ call2.sent # <<>>
   /\ call2.ret = [fileKey |-> FileKey2, err |-> NoErr]

ValidKey(key) ==
   key.hasN /\ key.N # <<>> /\ key.N[1] # 0 /\ key.E > 0

SameKey(k1, k2) == k1.N = k2.N /\ k1.E = k2.E

\* ids, a pair of results of keyID for the keys k1 and k2, are two
\* identifiers that are equal exactly when the keys are
IdentifiesByKey(ids, k1, k2) ==
   /\ ids[1].ok /\ ids[2].ok
   /\ ids[1].id # "" /\ ids[2].id # ""
   /\ (ids[1].id = ids[2].id) <=> SameKey(k1, k2)

C14_UnwrapAfterCloseFails ==
   /\ [][(kmsClient = "closed" /\ call.pc # "returned" /\ call'.pc = "returned")
            => (call'.ret.err # NoErr /\ call'.ret.fileKey = <<>>)]_vars
   /\ (kmsClient = "closed" /\ call.pc = "decrypting") ~> (call.pc = "returned")

\* an Unwrap of a list with a stanza for a key of the registry has returned
\* the closed connection's error
C14_Witness ==
   /\ kmsClient = "closed"
   /\ call.pc = "returned"
   /\ call.sent # <<>>
   /\ call.resp.err = RpcErr("Canceled")
   /\ call.ret = Failed(RpcErr("Canceled"))

\* C15: when NewClient has returned, either it returned a Client (whose
\* Close closes the connection NewClient opened) or no connection is left
\* open.
C15_ConnectionReleasable ==
   pcNew = "returned" => (newRet.client \/ kmsClient # "open")

====
